---- MODULE Spec2Model ----
(***************************************************************************)
(* qbittorrent-migrator: the manifest-vs-filesystem reconciliation of      *)
(* findCorrectTorrentPath (getExpectedFiles, validateSingleFile,           *)
(* validateMultiFileStructure and the reduce that selects the best         *)
(* candidate) together with the driver step that calls it.                 *)
(*                                                                         *)
(* Strings are sequences of tokens, "/" being the separator token, so that *)
(* Array.join('/') and path.join are computed and not assumed.  An         *)
(* optional field (info.files, info.length, a possibly-null result) is a   *)
(* sequence of length 0 (undefined / null) or 1.  Confidences are exact    *)
(* fractions <<numerator, denominator>> in lowest terms.  The debug log    *)
(* (a list of strings no decision reads) is not part of the state.         *)
(***************************************************************************)
EXTENDS Integers, Sequences, FiniteSets, TLC

VARIABLES
    torrentData,    \* the decoded .torrent descriptor (TorrentData)
    linuxPaths,     \* result of findPaths: the filePaths argument
    fs,             \* the filesystem: path -> [kind, size], defined on existing paths
    pc,             \* position of the driver / of findCorrectTorrentPath
    isSingleFile,   \* local of findCorrectTorrentPath
    expectedFiles,  \* local of findCorrectTorrentPath
    i,              \* loop index of findCorrectTorrentPath (1-based)
    candidates,     \* local of findCorrectTorrentPath
    exactPath,      \* value the call resolved to (0 or 1 element)
    unitResult,     \* value of a direct validateMultiFileStructure call (0 or 1 element)
    linuxPath,      \* pathMap[savePath].linuxPath (0 or 1 element)
    exitCode,       \* process exit code (0 or 1 element)
    qbit,           \* a qBittorrent process is running
    windowsFiles,   \* the files of the Windows BT_backup (result of readdir)
    corrupt,        \* the files bencode.decode rejects
    confirm,        \* the answer to the confirmation prompt (0 or 1 element)
    linuxDir,       \* the Linux qBittorrent data: file -> content, on existing files
    backup,         \* the copy made by backup_existing_config (0 or 1 element)
    pending,        \* the files the running phase has not handled yet
    resume,         \* the decoded content of each .fastresume: file -> save_path
    pathMap,        \* pathMap: key -> [normalizedPath, torrent, windowsPath, linuxPath]
    written         \* the save path in each .fastresume the rewrite wrote

\* the state of the migration drivers around the path mapping
driverVars == <<qbit, windowsFiles, corrupt, confirm, linuxDir, backup, pending>>

\* the content of the resume files and the map built from it
collectVars == <<resume, pathMap, written>>

vars == <<torrentData, linuxPaths, fs, pc, isSingleFile, expectedFiles, i,
          candidates, exactPath, unitResult, linuxPath, exitCode, driverVars,
          collectVars>>

----------------------------------------------------------------------------
(* Bounds of the model *)

\* longest candidate list returned by findPaths
MaxPaths == 2
\* largest expected size (bytes) of a single-file torrent; actual sizes range
\* over 0..MaxSize
MaxSize == 3
\* largest number of entries of a multi-file manifest scored directly
MaxFiles == 11

----------------------------------------------------------------------------
(* Exact fractions *)

RECURSIVE Gcd(_, _)
Gcd(a, b) == IF b = 0 THEN a ELSE Gcd(b, a % b)

\* n/d in lowest terms, d > 0, n >= 0
Frac(n, d) == LET g == Gcd(n, d) IN <<n \div g, d \div g>>

FAdd(x, y) == Frac(x[1] * y[2] + y[1] * x[2], x[2] * y[2])
FMul(x, y) == Frac(x[1] * y[1], x[2] * y[2])
FGt(x, y) == x[1] * y[2] > y[1] * x[2]
FLt(x, y) == FGt(y, x)
FLe(x, y) == ~FGt(x, y)
\* Math.max
FMax(x, y) == IF FGt(y, x) THEN y ELSE x

----------------------------------------------------------------------------
(* Strings and paths *)

Slash == "/"

RECURSIVE ArrayJoinNoSeparator(_)
\* Array.prototype.join('')
ArrayJoinNoSeparator(segments) ==
    IF segments = <<>> THEN <<>>
    ELSE segments[1] \o ArrayJoinNoSeparator(Tail(segments))

RECURSIVE ArrayJoin(_)
\* Array.prototype.join('/')
ArrayJoin(segments) ==
    IF segments = <<>> THEN <<>>
    ELSE IF Len(segments) = 1 THEN segments[1]
    ELSE segments[1] \o <<Slash>> \o ArrayJoin(Tail(segments))

RECURSIVE Normalize(_)
\* path.normalize on the token strings of the model: runs of separators
\* collapse and a trailing separator is dropped
Normalize(s) ==
    IF s = <<>> THEN <<>>
    ELSE IF s[1] = Slash /\ Len(s) = 1 THEN <<>>
    ELSE IF s[1] = Slash /\ s[2] = Slash THEN Normalize(Tail(s))
    ELSE <<s[1]>> \o Normalize(Tail(s))

\* path.join(a, b)
PathJoin(a, b) ==
    IF b = <<>> THEN Normalize(a) ELSE Normalize(a \o <<Slash>> \o b)

\* fs.existsSync
existsSync(f, p) == p \in DOMAIN f

\* stat.isFile() / stat.isDirectory() of a successful fs.statSync
isFile(stat) == stat.kind = "file"
isDirectory(stat) == stat.kind = "dir"

----------------------------------------------------------------------------
(* getExpectedFiles *)

RECURSIVE ExpectedOfFiles(_)
\* the for-of loop over info.files: one {path, size} per file, in order
ExpectedOfFiles(files) ==
    IF files = <<>> THEN <<>>
    ELSE <<[path |-> ArrayJoin(files[1].path), size |-> files[1].length]>>
         \o ExpectedOfFiles(Tail(files))

\* info.length || 0
LengthOrZero(info) == IF info.length = <<>> THEN 0 ELSE info.length[1]

getExpectedFiles(td) ==
    IF td.info.files # <<>>
    THEN ExpectedOfFiles(td.info.files[1])
    ELSE <<[path |-> td.info.name, size |-> LengthOrZero(td.info)]>>

----------------------------------------------------------------------------
(* validateSingleFile *)

\* SingleConfidence with the "actualSize > 0" test of the else-if forgotten
SingleConfidenceNoZeroTest(actualSize, expectedSize) ==
    IF actualSize = expectedSize THEN Frac(1, 1)
    ELSE IF actualSize < expectedSize
    THEN FAdd(Frac(5, 10), FMul(Frac(actualSize, expectedSize), Frac(3, 10)))
    ELSE Frac(2, 10)

\* SingleConfidence with completionRatio computed the wrong way round
SingleConfidenceInverted(actualSize, expectedSize) ==
    IF actualSize = expectedSize THEN Frac(1, 1)
    ELSE IF actualSize < expectedSize /\ actualSize > 0
    THEN FAdd(Frac(5, 10), FMul(Frac(expectedSize, actualSize), Frac(3, 10)))
    ELSE Frac(2, 10)

\* the confidence ladder of validateSingleFile
SingleConfidence(actualSize, expectedSize) ==
    IF actualSize = expectedSize THEN Frac(1, 1)
    ELSE IF actualSize < expectedSize /\ actualSize > 0
    THEN FAdd(Frac(5, 10), FMul(Frac(actualSize, expectedSize), Frac(3, 10)))
    ELSE Frac(2, 10)

\* null (<<>>) when fs.statSync throws, else <<{confidence, match}>>
validateSingleFile(filePath, expectedFile, f) ==
    IF ~existsSync(f, filePath) THEN <<>>
    ELSE LET actualSize == f[filePath].size
             expectedSize == expectedFile.size
             match == [expectedPath |-> expectedFile.path,
                       actualPath |-> filePath,
                       exists |-> TRUE,
                       expectedSize |-> expectedSize,
                       actualSize |-> actualSize,
                       sizeMatch |-> (actualSize = expectedSize)]
         IN <<[confidence |-> SingleConfidence(actualSize, expectedSize),
               match |-> match]>>

----------------------------------------------------------------------------
(* validateMultiFileStructure *)

\* the body of the for loop for one expected file: try statSync(fullPath), push
\* the FileMatch and bump the counters; the catch branch pushes exists=false
CheckFile(acc, basePath, expectedFile, f) ==
    LET fullPath == PathJoin(basePath, expectedFile.path)
    IN IF existsSync(f, fullPath)
       THEN LET actualSize == f[fullPath].size
                sizeMatch == (actualSize = expectedFile.size)
            IN [matches |-> Append(acc.matches,
                                [expectedPath |-> expectedFile.path,
                                 actualPath |-> fullPath,
                                 exists |-> TRUE,
                                 expectedSize |-> expectedFile.size,
                                 actualSize |-> actualSize,
                                 sizeMatch |-> sizeMatch]),
                existingFiles |-> acc.existingFiles + 1,
                perfectMatches |-> acc.perfectMatches + (IF sizeMatch THEN 1 ELSE 0)]
       ELSE [matches |-> Append(acc.matches,
                                [expectedPath |-> expectedFile.path,
                                 actualPath |-> fullPath,
                                 exists |-> FALSE,
                                 expectedSize |-> expectedFile.size,
                                 actualSize |-> 0,
                                 sizeMatch |-> FALSE]),
             existingFiles |-> acc.existingFiles,
             perfectMatches |-> acc.perfectMatches]

\* const filesToCheck = Math.min(expectedFiles.length, 10): the number the
\* "Checking first ... files" message prints; the loop does not read it
filesToCheck(files) == IF Len(files) < 10 THEN Len(files) ELSE 10

RECURSIVE CheckFilesToCheck(_, _, _, _, _)
\* CheckFiles with the loop bounded by filesToCheck
CheckFilesToCheck(acc, basePath, files, k, f) ==
    IF k > filesToCheck(files) THEN acc
    ELSE CheckFilesToCheck(CheckFile(acc, basePath, files[k], f), basePath, files,
                           k + 1, f)

RECURSIVE CheckFiles(_, _, _, _, _)
\* for (let i = 0; i < expectedFiles.length; i++), from index k (1-based)
CheckFiles(acc, basePath, files, k, f) ==
    IF k > Len(files) THEN acc
    ELSE CheckFiles(CheckFile(acc, basePath, files[k], f), basePath, files, k + 1, f)

\* MultiConfidence with the 0.6 floor applied before the 0.1 bonus
MultiConfidenceFloorFirst(totalFiles, existingFiles, perfectMatches) ==
    IF existingFiles > 0
    THEN LET existenceRatio == Frac(existingFiles, totalFiles)
             perfectMatchRatio == Frac(perfectMatches, existingFiles)
             c0 == FAdd(FMul(existenceRatio, Frac(7, 10)),
                        FMul(perfectMatchRatio, Frac(3, 10)))
             c1 == IF FGt(existenceRatio, Frac(5, 10))
                   THEN FMax(c0, Frac(6, 10)) ELSE c0
             c2 == IF FGt(existenceRatio, Frac(8, 10))
                   THEN FAdd(c1, Frac(1, 10)) ELSE c1
         IN c2
    ELSE Frac(0, 1)

\* MultiConfidence with the bonus given for existenceRatio < 0.8
MultiConfidenceBonusBelow(totalFiles, existingFiles, perfectMatches) ==
    IF existingFiles > 0
    THEN LET existenceRatio == Frac(existingFiles, totalFiles)
             perfectMatchRatio == Frac(perfectMatches, existingFiles)
             c0 == FAdd(FMul(existenceRatio, Frac(7, 10)),
                        FMul(perfectMatchRatio, Frac(3, 10)))
             c1 == IF FLt(existenceRatio, Frac(8, 10))
                   THEN FAdd(c0, Frac(1, 10)) ELSE c0
             c2 == IF FGt(existenceRatio, Frac(5, 10))
                   THEN FMax(c1, Frac(6, 10)) ELSE c1
         IN c2
    ELSE Frac(0, 1)

\* "Calculate confidence score"
MultiConfidence(totalFiles, existingFiles, perfectMatches) ==
    IF existingFiles > 0
    THEN LET existenceRatio == Frac(existingFiles, totalFiles)
             perfectMatchRatio == Frac(perfectMatches, existingFiles)
             c0 == FAdd(FMul(existenceRatio, Frac(7, 10)),
                        FMul(perfectMatchRatio, Frac(3, 10)))
             c1 == IF FGt(existenceRatio, Frac(8, 10))
                   THEN FAdd(c0, Frac(1, 10)) ELSE c0
             c2 == IF FGt(existenceRatio, Frac(5, 10))
                   THEN FMax(c1, Frac(6, 10)) ELSE c1
         IN c2
    ELSE Frac(0, 1)

\* null (<<>>) when basePath is missing or no directory, else <<PathMatchResult>>
validateMultiFileStructure(basePath, files, f) ==
    IF ~existsSync(f, basePath) THEN <<>>
    ELSE IF ~isDirectory(f[basePath]) THEN <<>>
    ELSE LET acc == CheckFiles([matches |-> <<>>, existingFiles |-> 0,
                                perfectMatches |-> 0], basePath, files, 1, f)
             totalFiles == Len(files)
         IN <<[basePath |-> basePath,
               confidence |-> MultiConfidence(totalFiles, acc.existingFiles,
                                              acc.perfectMatches),
               matches |-> acc.matches,
               totalFiles |-> totalFiles,
               existingFiles |-> acc.existingFiles]>>

----------------------------------------------------------------------------
(* findCorrectTorrentPath: the loop body for one base path, and the reduce *)

\* SingleFileCandidates without the existsSync test before the in-directory
\* hypothesis and with a null result pushed as a non-existing match
SingleFileCandidatesUnchecked(basePath, torrentName, files, f) ==
    LET stat == f[basePath]
        asFile == IF isFile(stat)
                  THEN validateSingleFile(basePath, files[1], f) ELSE <<>>
        filePath == PathJoin(basePath, torrentName)
        missing == [confidence |-> Frac(0, 1),
                    match |-> [expectedPath |-> files[1].path,
                               actualPath |-> filePath,
                               exists |-> FALSE,
                               expectedSize |-> files[1].size,
                               actualSize |-> 0,
                               sizeMatch |-> FALSE]]
        inDir == IF isDirectory(stat)
                 THEN (IF existsSync(f, filePath)
                       THEN validateSingleFile(filePath, files[1], f)
                       ELSE <<missing>>)
                 ELSE <<>>
        push(result) == [basePath |-> basePath,
                         confidence |-> result.confidence,
                         matches |-> <<result.match>>,
                         totalFiles |-> 1,
                         existingFiles |-> IF result.match.exists THEN 1 ELSE 0]
    IN (IF asFile # <<>> THEN <<push(asFile[1])>> ELSE <<>>)
       \o (IF inDir # <<>> THEN <<push(inDir[1])>> ELSE <<>>)

\* SingleFileCandidates with the "is the file itself" hypothesis tested
\* without stat.isFile()
SingleFileCandidatesNoKindTest(basePath, torrentName, files, f) ==
    LET stat == f[basePath]
        asFile == validateSingleFile(basePath, files[1], f)
        filePath == PathJoin(basePath, torrentName)
        inDir == IF isDirectory(stat) /\ existsSync(f, filePath)
                 THEN validateSingleFile(filePath, files[1], f) ELSE <<>>
        push(result) == [basePath |-> basePath,
                         confidence |-> result.confidence,
                         matches |-> <<result.match>>,
                         totalFiles |-> 1,
                         existingFiles |-> IF result.match.exists THEN 1 ELSE 0]
    IN (IF asFile # <<>> THEN <<push(asFile[1])>> ELSE <<>>)
       \o (IF inDir # <<>> THEN <<push(inDir[1])>> ELSE <<>>)

\* the single-file branch for one existing base path: the candidates pushed
SingleFileCandidates(basePath, torrentName, files, f) ==
    LET stat == f[basePath]
        asFile == IF isFile(stat)
                  THEN validateSingleFile(basePath, files[1], f) ELSE <<>>
        filePath == PathJoin(basePath, torrentName)
        inDir == IF isDirectory(stat) /\ existsSync(f, filePath)
                 THEN validateSingleFile(filePath, files[1], f) ELSE <<>>
        push(result) == [basePath |-> basePath,
                         confidence |-> result.confidence,
                         matches |-> <<result.match>>,
                         totalFiles |-> 1,
                         existingFiles |-> IF result.match.exists THEN 1 ELSE 0]
    IN (IF asFile # <<>> THEN <<push(asFile[1])>> ELSE <<>>)
       \o (IF inDir # <<>> THEN <<push(inDir[1])>> ELSE <<>>)

\* pathsToTest with the base path itself tested first
pathsToTestDirectFirst(basePath, torrentName) ==
    <<basePath, PathJoin(basePath, torrentName)>>

\* pathsToTest: "with torrent name folder", then "direct in base path"
pathsToTest(basePath, torrentName) == <<PathJoin(basePath, torrentName), basePath>>

\* MultiFileCandidate without the "confidence > 0" test
MultiFileCandidateAnyScore(basePath, testPath, files, f) ==
    LET result == validateMultiFileStructure(testPath, files, f)
    IN IF result # <<>>
       THEN <<[result[1] EXCEPT !.basePath = basePath]>>
       ELSE <<>>

\* one iteration of for (const {testPath} of pathsToTest): the candidate pushed
MultiFileCandidate(basePath, testPath, files, f) ==
    LET result == validateMultiFileStructure(testPath, files, f)
    IN IF result # <<>> /\ FGt(result[1].confidence, Frac(0, 1))
       THEN <<[result[1] EXCEPT !.basePath = basePath]>>
       ELSE <<>>

\* the multi-file branch for one existing directory base path
MultiFileCandidates(basePath, torrentName, files, f) ==
    LET tests == pathsToTest(basePath, torrentName)
    IN MultiFileCandidate(basePath, tests[1], files, f)
       \o MultiFileCandidate(basePath, tests[2], files, f)

\* Better with >= for >: the last of several equal candidates wins
BetterOrEqual(best, current) ==
    IF ~FGt(best.confidence, current.confidence) THEN current ELSE best

\* the reducer: current.confidence > best.confidence ? current : best
Better(best, current) ==
    IF FGt(current.confidence, best.confidence) THEN current ELSE best

RECURSIVE ReduceFrom(_, _, _)
ReduceFrom(best, cands, k) ==
    IF k > Len(cands) THEN best
    ELSE ReduceFrom(Better(best, cands[k]), cands, k + 1)

\* candidates.reduce(reducer) without initial value, on a non-empty array
Reduce(cands) == ReduceFrom(cands[1], cands, 2)

----------------------------------------------------------------------------
(* Inputs: torrent descriptors, candidate lists and filesystems *)

TorrentName == <<"T">>

BaseNames == <<"A", "B", "C", "D">>
\* the k-th path found by the glob search; the search returns no path below
\* another (includeChildMatches: false), so the candidates are disjoint trees
Base(k) == <<Slash, BaseNames[k]>>

FileNames == <<"f1", "f2", "f3", "f4", "f5", "f6", "f7", "f8", "f9", "f10",
               "f11", "f12", "f13">>

Descriptor(files, length) ==
    [info |-> [name |-> TorrentName, files |-> files, length |-> length]]

\* single-file descriptors: no info.files; info.length absent or 0..MaxSize
SingleDescriptors ==
    {Descriptor(<<>>, l) : l \in {<<>>} \cup {<<n>> : n \in 0..MaxSize}}

\* info.files of the multi-file descriptors reconciled by the driver: empty,
\* one file, and two files of which one lies in a sub-folder and one is empty
MultiFileLists ==
    { <<>>,
      <<[path |-> << <<"f1">> >>, length |-> 1]>>,
      <<[path |-> << <<"d">>, <<"f2">> >>, length |-> 2],
        [path |-> << <<"f1">> >>, length |-> 0]>> }

MultiDescriptors == {Descriptor(<<l>>, <<>>) : l \in MultiFileLists}

\* the j-th file of a large manifest: every second file in folder "d", sizes 0..2
BigFile(j) ==
    [path |-> IF j % 2 = 0 THEN << <<"d">>, <<FileNames[j]>> >>
              ELSE << <<FileNames[j]>> >>,
     length |-> j % 3]

BigFiles(n) == [j \in 1..n |-> BigFile(j)]

File(s) == [kind |-> "file", size |-> s]
Dir == [kind |-> "dir", size |-> MaxSize]
\* neither a regular file nor a directory (socket, fifo, device)
Other == [kind |-> "other", size |-> 0]

\* the filesystem holding the nodes <<path, stat>>
FsOf(nodes) ==
    [p \in {n[1] : n \in nodes} |-> (CHOOSE n \in nodes : n[1] = p)[2]]

\* status of every expected file under one root: e files present of which p
\* have the expected size, counted from the front of the manifest
FrontProfiles(n) ==
    {[j \in 1..n |-> IF j <= ep[2] THEN "match"
                     ELSE IF j <= ep[1] THEN "mismatch" ELSE "absent"] :
        ep \in {x \in (0..n) \X (0..n) : x[2] <= x[1]}}

\* the same, counted from the front or from the end of the manifest
CountProfiles(n) ==
    FrontProfiles(n) \cup {[j \in 1..n |-> pr[n + 1 - j]] : pr \in FrontProfiles(n)}

\* the folders between root and the file at root/relative
Folders(root, segments) ==
    {<<PathJoin(root, ArrayJoin(SubSeq(segments, 1, k))), Dir>> :
        k \in 1..(Len(segments) - 1)}

\* the nodes below root for one status profile
EntryTree(root, files, profile) ==
    UNION {IF profile[j] = "absent" THEN {}
           ELSE {<<PathJoin(root, ArrayJoin(files[j].path)),
                   File(IF profile[j] = "match" THEN files[j].length
                        ELSE files[j].length + 1)>>}
                \cup Folders(root, files[j].path) : j \in 1..Len(files)}

\* what one candidate base path can be
BaseTrees(b, td) ==
    IF td.info.files = <<>>
    THEN {{}} \cup {{<<b, Other>>}} \cup {{<<b, File(s)>>} : s \in 0..MaxSize}
         \cup {{<<b, Dir>>} \cup c :
                 c \in {{}} \cup {{<<PathJoin(b, TorrentName), Dir>>}}
                       \cup {{<<PathJoin(b, TorrentName), File(s)>>} : s \in 0..MaxSize}}
    ELSE LET files == td.info.files[1]
             named == PathJoin(b, TorrentName)
         IN {{}} \cup {{<<b, File(0)>>}}
            \cup {{<<b, Dir>>} \cup n \cup d :
                    n \in {{}} \cup {{<<named, File(0)>>}}
                          \cup {{<<named, Dir>>} \cup EntryTree(named, files, pr) :
                                  pr \in FrontProfiles(Len(files))},
                    d \in {EntryTree(b, files, pr) :
                             pr \in FrontProfiles(Len(files))}}

RECURSIVE TreesFor(_, _)
\* the filesystems over the first k base paths
TreesFor(td, k) ==
    IF k = 0 THEN {{}}
    ELSE {t \cup u : t \in TreesFor(td, k - 1), u \in BaseTrees(Base(k), td)}

----------------------------------------------------------------------------
(* The driver maps one save path: "Map Windows paths to Linux paths" *)

\* no migration driver state: the call is looked at on its own
DriverIdle ==
    /\ qbit = FALSE
    /\ windowsFiles = {}
    /\ corrupt = {}
    /\ confirm = <<>>
    /\ linuxDir = <<>>
    /\ backup = <<>>
    /\ pending = {}
    /\ resume = <<>>
    /\ pathMap = <<>>
    /\ written = <<>>

Init ==
    /\ \E td \in SingleDescriptors \cup MultiDescriptors, k \in 0..MaxPaths :
          /\ torrentData = td
          /\ linuxPaths = [j \in 1..k |-> Base(j)]
          /\ \E nodes \in TreesFor(td, k) : fs = FsOf(nodes)
    /\ pc = "findPaths"
    /\ isSingleFile = FALSE
    /\ expectedFiles = <<>>
    /\ i = 0
    /\ candidates = <<>>
    /\ exactPath = <<>>
    /\ unitResult = <<>>
    /\ linuxPath = <<>>
    /\ exitCode = <<>>
    /\ DriverIdle

\* if (!linuxPaths.length) process.exit(1)
DriverNoPath ==
    /\ UNCHANGED collectVars
    /\ pc = "findPaths"
    /\ Len(linuxPaths) = 0
    /\ pc' = "exited"
    /\ exitCode' = <<1>>
    /\ UNCHANGED driverVars
    /\ UNCHANGED <<torrentData, linuxPaths, fs, isSingleFile, expectedFiles, i,
                   candidates, exactPath, unitResult, linuxPath>>

\* else branch: pathMap[savePath].linuxPath = linuxPaths[0]
DriverOnePath ==
    /\ UNCHANGED collectVars
    /\ pc = "findPaths"
    /\ Len(linuxPaths) = 1
    /\ linuxPath' = <<linuxPaths[1]>>
    /\ pc' = "mapped"
    /\ UNCHANGED driverVars
    /\ UNCHANGED <<torrentData, linuxPaths, fs, isSingleFile, expectedFiles, i,
                   candidates, exactPath, unitResult, exitCode>>

\* linuxPaths.length > 1: findCorrectTorrentPath is entered; its prologue
\* sets isSingleFile, expectedFiles and the empty candidates
DriverCall ==
    /\ UNCHANGED collectVars
    /\ pc = "findPaths"
    /\ Len(linuxPaths) > 1
    /\ isSingleFile' = (torrentData.info.files = <<>>)
    /\ expectedFiles' = getExpectedFiles(torrentData)
    /\ candidates' = <<>>
    /\ i' = 1
    /\ pc' = "loop"
    /\ UNCHANGED driverVars
    /\ UNCHANGED <<torrentData, linuxPaths, fs, exactPath, unitResult, linuxPath,
                   exitCode>>

\* loop body: !fs.existsSync(basePath) -> continue
SkipMissingPath ==
    /\ UNCHANGED collectVars
    /\ pc = "loop"
    /\ i <= Len(linuxPaths)
    /\ ~existsSync(fs, linuxPaths[i])
    /\ i' = i + 1
    /\ UNCHANGED driverVars
    /\ UNCHANGED <<torrentData, linuxPaths, fs, pc, isSingleFile, expectedFiles,
                   candidates, exactPath, unitResult, linuxPath, exitCode>>

\* loop body: the single-file branch
TestSingleFile ==
    /\ UNCHANGED collectVars
    /\ pc = "loop"
    /\ i <= Len(linuxPaths)
    /\ existsSync(fs, linuxPaths[i])
    /\ isSingleFile
    /\ candidates' = candidates \o SingleFileCandidates(linuxPaths[i],
                                        torrentData.info.name, expectedFiles, fs)
    /\ i' = i + 1
    /\ UNCHANGED driverVars
    /\ UNCHANGED <<torrentData, linuxPaths, fs, pc, isSingleFile, expectedFiles,
                   exactPath, unitResult, linuxPath, exitCode>>

\* loop body: multi-file torrent, base path is no directory -> continue
SkipNotDirectory ==
    /\ UNCHANGED collectVars
    /\ pc = "loop"
    /\ i <= Len(linuxPaths)
    /\ existsSync(fs, linuxPaths[i])
    /\ ~isSingleFile
    /\ ~isDirectory(fs[linuxPaths[i]])
    /\ i' = i + 1
    /\ UNCHANGED driverVars
    /\ UNCHANGED <<torrentData, linuxPaths, fs, pc, isSingleFile, expectedFiles,
                   candidates, exactPath, unitResult, linuxPath, exitCode>>

\* loop body: multi-file torrent, both structures are tested
TestMultiFile ==
    /\ UNCHANGED collectVars
    /\ pc = "loop"
    /\ i <= Len(linuxPaths)
    /\ existsSync(fs, linuxPaths[i])
    /\ ~isSingleFile
    /\ isDirectory(fs[linuxPaths[i]])
    /\ candidates' = candidates \o MultiFileCandidates(linuxPaths[i],
                                        torrentData.info.name, expectedFiles, fs)
    /\ i' = i + 1
    /\ UNCHANGED driverVars
    /\ UNCHANGED <<torrentData, linuxPaths, fs, pc, isSingleFile, expectedFiles,
                   exactPath, unitResult, linuxPath, exitCode>>

\* after the loop: candidates.reduce(...); on an empty array reduce throws
\* TypeError, else the promise resolves to the best candidate
SelectBest ==
    /\ UNCHANGED collectVars
    /\ pc = "loop"
    /\ i > Len(linuxPaths)
    /\ IF candidates = <<>>
       THEN /\ pc' = "threw"
            /\ exactPath' = <<>>
       ELSE /\ pc' = "returned"
            /\ exactPath' = <<Reduce(candidates)>>
    /\ UNCHANGED driverVars
    /\ UNCHANGED <<torrentData, linuxPaths, fs, isSingleFile, expectedFiles, i,
                   candidates, unitResult, linuxPath, exitCode>>

\* pathMap[savePath].linuxPath = exactPath.basePath
DriverAssign ==
    /\ UNCHANGED collectVars
    /\ pc = "returned"
    /\ IF exactPath = <<>>
       THEN /\ pc' = "crashed"
            /\ exitCode' = <<1>>
            /\ UNCHANGED linuxPath
       ELSE /\ linuxPath' = <<exactPath[1].basePath>>
            /\ pc' = "mapped"
            /\ UNCHANGED exitCode
    /\ UNCHANGED driverVars
    /\ UNCHANGED <<torrentData, linuxPaths, fs, isSingleFile, expectedFiles, i,
                   candidates, exactPath, unitResult>>

\* the exception leaves the async callback as a rejection of Promise.all; the
\* top-level await rethrows it and the process ends with an uncaught error
DriverUncaught ==
    /\ UNCHANGED collectVars
    /\ pc = "threw"
    /\ pc' = "crashed"
    /\ exitCode' = <<1>>
    /\ UNCHANGED driverVars
    /\ UNCHANGED <<torrentData, linuxPaths, fs, isSingleFile, expectedFiles, i,
                   candidates, exactPath, unitResult, linuxPath>>

Next ==
    \/ DriverNoPath
    \/ DriverOnePath
    \/ DriverCall
    \/ SkipMissingPath
    \/ TestSingleFile
    \/ SkipNotDirectory
    \/ TestMultiFile
    \/ SelectBest
    \/ DriverAssign
    \/ DriverUncaught

Spec == Init /\ [][Next]_vars

----------------------------------------------------------------------------
(* validateMultiFileStructure applied to one root and a manifest of up to  *)
(* MaxFiles entries                                                        *)

InitUnit ==
    /\ \E n \in 0..MaxFiles :
          /\ torrentData = Descriptor(<<BigFiles(n)>>, <<>>)
          /\ \E nodes \in {{}} \cup {{<<Base(1), File(0)>>}}
                          \cup {{<<Base(1), Dir>>}
                                \cup EntryTree(Base(1), BigFiles(n), pr) :
                                  pr \in CountProfiles(n)} :
                fs = FsOf(nodes)
    /\ linuxPaths = <<Base(1)>>
    /\ pc = "unit"
    /\ isSingleFile = FALSE
    /\ expectedFiles = <<>>
    /\ i = 0
    /\ candidates = <<>>
    /\ exactPath = <<>>
    /\ unitResult = <<>>
    /\ linuxPath = <<>>
    /\ exitCode = <<>>
    /\ DriverIdle

\* const expectedFiles = getExpectedFiles(torrentData)
UnitExpectedFiles ==
    /\ UNCHANGED collectVars
    /\ pc = "unit"
    /\ expectedFiles' = getExpectedFiles(torrentData)
    /\ pc' = "unitValidate"
    /\ UNCHANGED driverVars
    /\ UNCHANGED <<torrentData, linuxPaths, fs, isSingleFile, i, candidates,
                   exactPath, unitResult, linuxPath, exitCode>>

\* const result = validateMultiFileStructure(testPath, expectedFiles, debug)
UnitValidate ==
    /\ UNCHANGED collectVars
    /\ pc = "unitValidate"
    /\ unitResult' = validateMultiFileStructure(linuxPaths[1], expectedFiles, fs)
    /\ pc' = "unitDone"
    /\ UNCHANGED driverVars
    /\ UNCHANGED <<torrentData, linuxPaths, fs, isSingleFile, expectedFiles, i,
                   candidates, exactPath, linuxPath, exitCode>>

NextUnit ==
    \/ UnitExpectedFiles
    \/ UnitValidate

SpecUnit == InitUnit /\ [][NextUnit]_vars

----------------------------------------------------------------------------
(* findCorrectTorrentPath on a filesystem that another process changes:    *)
(* the existsSync and statSync of a candidate base path and of a tested    *)
(* root are steps of their own, and between two steps another process may  *)
(* remove such a path together with what lies under it.  The statSync of   *)
(* an entry is inside try/catch (lines 303-340, 226-265): a removal before *)
(* it only changes the evidence, so the entries of one root are examined   *)
(* in one step.                                                            *)

\* p is q or lies under q
IsUnder(p, q) == Len(q) <= Len(p) /\ SubSeq(p, 1, Len(q)) = q

\* the filesystem after another process removed q recursively
Removed(f, q) == [p \in {r \in DOMAIN f : ~IsUnder(r, q)} |-> f[p]]

\* candidates.push({basePath, confidence: result.confidence,
\*                  matches: [result.match], totalFiles: 1, existingFiles: ...})
SingleCandidate(basePath, result) ==
    [basePath |-> basePath,
     confidence |-> result.confidence,
     matches |-> <<result.match>>,
     totalFiles |-> 1,
     existingFiles |-> IF result.match.exists THEN 1 ELSE 0]

\* the base path of the running iteration
BasePath == linuxPaths[i]

\* the root under test: pathsToTest[0] at "root1...", pathsToTest[1] at "root2..."
TestPath ==
    IF pc \in {"root1", "root1stat"}
    THEN pathsToTest(BasePath, torrentData.info.name)[1]
    ELSE pathsToTest(BasePath, torrentData.info.name)[2]

InitRace == Init

\* the paths the call tests with existsSync and then reads with statSync
RacedPaths ==
    UNION {{linuxPaths[j], PathJoin(linuxPaths[j], torrentData.info.name)} :
             j \in 1..Len(linuxPaths)}

\* another process: rm -r of an existing path while the call is running
OtherProcessRemoves ==
    /\ UNCHANGED collectVars
    /\ pc \in {"loop", "statSync", "singleFile", "singleDir",
               "root1", "root1stat", "root2", "root2stat"}
    /\ \E q \in RacedPaths \cap DOMAIN fs : fs' = Removed(fs, q)
    /\ UNCHANGED driverVars
    /\ UNCHANGED <<torrentData, linuxPaths, pc, isSingleFile, expectedFiles, i,
                   candidates, exactPath, unitResult, linuxPath, exitCode>>

\* line 78: if (!fs.existsSync(basePath)) continue
RaceExistsSync ==
    /\ UNCHANGED collectVars
    /\ pc = "loop"
    /\ i <= Len(linuxPaths)
    /\ IF existsSync(fs, BasePath)
       THEN pc' = "statSync" /\ i' = i
       ELSE pc' = "loop" /\ i' = i + 1
    /\ UNCHANGED driverVars
    /\ UNCHANGED <<torrentData, linuxPaths, fs, isSingleFile, expectedFiles,
                   candidates, exactPath, unitResult, linuxPath, exitCode>>

\* line 83: const stat = fs.statSync(basePath), outside any try: ENOENT leaves
\* the function; else the branch on isSingleFile, stat.isFile(),
\* stat.isDirectory() is taken with the stat just read
RaceStatSync ==
    /\ UNCHANGED collectVars
    /\ pc = "statSync"
    /\ IF ~existsSync(fs, BasePath)
       THEN pc' = "statThrew" /\ i' = i
       ELSE LET stat == fs[BasePath]
            IN IF isSingleFile
               THEN IF isFile(stat) THEN pc' = "singleFile" /\ i' = i
                    ELSE IF isDirectory(stat) THEN pc' = "singleDir" /\ i' = i
                    ELSE pc' = "loop" /\ i' = i + 1
               ELSE IF isDirectory(stat) THEN pc' = "root1" /\ i' = i
                    ELSE pc' = "loop" /\ i' = i + 1
    /\ UNCHANGED driverVars
    /\ UNCHANGED <<torrentData, linuxPaths, fs, isSingleFile, expectedFiles,
                   candidates, exactPath, unitResult, linuxPath, exitCode>>

\* lines 93-109: validateSingleFile(basePath, expectedFiles[0]); its statSync
\* is inside try, a failure gives null and nothing is pushed
RaceSingleFile ==
    /\ UNCHANGED collectVars
    /\ pc = "singleFile"
    /\ LET result == validateSingleFile(BasePath, expectedFiles[1], fs)
       IN candidates' = IF result # <<>>
                        THEN Append(candidates, SingleCandidate(BasePath, result[1]))
                        ELSE candidates
    /\ pc' = "loop"
    /\ i' = i + 1
    /\ UNCHANGED driverVars
    /\ UNCHANGED <<torrentData, linuxPaths, fs, isSingleFile, expectedFiles,
                   exactPath, unitResult, linuxPath, exitCode>>

\* lines 112-133: filePath = path.join(basePath, torrentName);
\* if (fs.existsSync(filePath)) validateSingleFile(filePath, expectedFiles[0])
RaceSingleDir ==
    /\ UNCHANGED collectVars
    /\ pc = "singleDir"
    /\ LET filePath == PathJoin(BasePath, torrentData.info.name)
           result == IF existsSync(fs, filePath)
                     THEN validateSingleFile(filePath, expectedFiles[1], fs)
                     ELSE <<>>
       IN candidates' = IF result # <<>>
                        THEN Append(candidates, SingleCandidate(BasePath, result[1]))
                        ELSE candidates
    /\ pc' = "loop"
    /\ i' = i + 1
    /\ UNCHANGED driverVars
    /\ UNCHANGED <<torrentData, linuxPaths, fs, isSingleFile, expectedFiles,
                   exactPath, unitResult, linuxPath, exitCode>>

\* line 275 of validateMultiFileStructure: if (!fs.existsSync(basePath))
\* return null, and the loop over pathsToTest goes on
RaceRootExistsSync ==
    /\ UNCHANGED collectVars
    /\ pc \in {"root1", "root2"}
    /\ IF existsSync(fs, TestPath)
       THEN pc' = (IF pc = "root1" THEN "root1stat" ELSE "root2stat") /\ i' = i
       ELSE IF pc = "root1"
            THEN pc' = "root2" /\ i' = i
            ELSE pc' = "loop" /\ i' = i + 1
    /\ UNCHANGED driverVars
    /\ UNCHANGED <<torrentData, linuxPaths, fs, isSingleFile, expectedFiles,
                   candidates, exactPath, unitResult, linuxPath, exitCode>>

\* line 280: fs.statSync(basePath).isDirectory(), outside any try: ENOENT
\* leaves both functions; else the entries are examined (each statSync inside
\* try) and the result is pushed when its confidence is above 0
RaceRootStatSync ==
    /\ UNCHANGED collectVars
    /\ pc \in {"root1stat", "root2stat"}
    /\ IF ~existsSync(fs, TestPath)
       THEN /\ pc' = "statThrew"
            /\ UNCHANGED <<i, candidates>>
       ELSE /\ candidates' = candidates
                               \o MultiFileCandidate(BasePath, TestPath, expectedFiles, fs)
            /\ IF pc = "root1stat"
               THEN pc' = "root2" /\ i' = i
               ELSE pc' = "loop" /\ i' = i + 1
    /\ UNCHANGED driverVars
    /\ UNCHANGED <<torrentData, linuxPaths, fs, isSingleFile, expectedFiles,
                   exactPath, unitResult, linuxPath, exitCode>>

\* the ENOENT of statSync rejects the promise of findCorrectTorrentPath; the
\* top-level await rethrows it and the process ends with an uncaught error
RaceUncaught ==
    /\ UNCHANGED collectVars
    /\ pc = "statThrew"
    /\ pc' = "crashed"
    /\ exitCode' = <<1>>
    /\ UNCHANGED driverVars
    /\ UNCHANGED <<torrentData, linuxPaths, fs, isSingleFile, expectedFiles, i,
                   candidates, exactPath, unitResult, linuxPath>>

NextRace ==
    \/ DriverNoPath
    \/ DriverOnePath
    \/ DriverCall
    \/ OtherProcessRemoves
    \/ RaceExistsSync
    \/ RaceStatSync
    \/ RaceSingleFile
    \/ RaceSingleDir
    \/ RaceRootExistsSync
    \/ RaceRootStatSync
    \/ SelectBest
    \/ DriverAssign
    \/ DriverUncaught
    \/ RaceUncaught

SpecRace == InitRace /\ [][NextRace]_vars

----------------------------------------------------------------------------
(* The migration drivers: the Node driver (src/unnamed/part_000:533-679)   *)
(* and windows-to-linux.sh (main).  A file name is <<hash, extension>>;    *)
(* the content of a file of the Linux qBittorrent directory is "linux"     *)
(* (what was there before the run), "windows" (a copy of the Windows       *)
(* file) or "rewritten" (the Windows file with the paths replaced).  An    *)
(* answer typed at a prompt is a sequence of characters.                   *)

\* most torrents in the Windows BT_backup
MaxTorrents == 2

HashNames == <<"h1", "h2", "h3", "h4">>

TorrentFile(h) == <<h, ".torrent">>
FastResumeFile(h) == <<h, ".fastresume">>

\* readdir of a BT_backup holding n torrents
FilesOf(n) == UNION {{TorrentFile(HashNames[k]), FastResumeFile(HashNames[k])} :
                       k \in 1..n}

\* files.filter((f) => f.endsWith('.fastresume'))
fastResumeFiles == {f \in windowsFiles : f[Len(f)] = ".fastresume"}
\* files.filter((f) => f.endsWith('.torrent'))
torrentFiles == {f \in windowsFiles : f[Len(f)] = ".torrent"}

\* file.replace(/\.torrent$/, '.fastresume')
ToFastResume(file) ==
    IF file[Len(file)] = ".torrent"
    THEN SubSeq(file, 1, Len(file) - 1) \o <<".fastresume">>
    ELSE file

\* $WINDOWS_QB_PATH/qBittorrent.conf
ConfFile == <<"qBittorrent", ".conf">>

\* the answers typed at a prompt
Answers ==
    { <<>>, <<"y">>, <<"Y">>, <<"n">>, <<"n", "o">>, <<"y", "e">>,
      <<"y", "e", "s">>, <<"Y", "e", "S">>, <<"y", "e", "s", "s">>,
      <<" ", "Y", "E", "S", " ">>, <<" ", "y">>, <<"y", " ", "Y">> }

LowerChar(c) ==
    CASE c = "Y" -> "y"
      [] c = "E" -> "e"
      [] c = "S" -> "s"
      [] c = "N" -> "n"
      [] c = "O" -> "o"
      [] OTHER -> c

\* String.prototype.toLowerCase
toLowerCase(str) == [k \in 1..Len(str) |-> LowerChar(str[k])]

RECURSIVE trimStart(_)
trimStart(str) ==
    IF str # <<>> /\ Head(str) = " " THEN trimStart(Tail(str)) ELSE str

RECURSIVE trimEnd(_)
trimEnd(str) ==
    IF str # <<>> /\ str[Len(str)] = " "
    THEN trimEnd(SubSeq(str, 1, Len(str) - 1)) ELSE str

\* String.prototype.trim; also what read does to the line it assigns to a
\* single variable (leading and trailing IFS whitespace removed)
trim(str) == trimEnd(trimStart(str))

\* the confirmation test with startsWith('y') for the membership in ['y', 'yes']
ConfirmedByPrefix(answer) ==
    LET a == toLowerCase(trim(answer))
    IN a # <<>> /\ Head(a) = "y"

\* ['y', 'yes'].includes(confirm.trim().toLowerCase())
Confirmed(answer) == toLowerCase(trim(answer)) \in {<<"y">>, <<"y", "e", "s">>}

\* [[ $confirm =~ ^[Yy]$ ]] on the variable read assigned
shConfirmed(answer) == trim(answer) \in {<<"y">>, <<"Y">>}

\* the variables of the path mapping no driver step outside it changes
mappingVars == <<torrentData, linuxPaths, fs, isSingleFile, expectedFiles, i,
                 candidates, exactPath, unitResult, linuxPath>>

\* what the Linux qBittorrent directory holds before the run: nothing, the
\* files of the first torrent, or every file of the Windows BT_backup
LinuxDirs(n) ==
    {[f \in S |-> "linux"] : S \in {{}, FilesOf(1) \cap FilesOf(n), FilesOf(n)}}

\* one torrent whose save path findPaths finds nowhere or at one place
InitDriver ==
    /\ \E n \in 0..MaxTorrents :
          /\ windowsFiles = FilesOf(n)
          /\ corrupt \in {{}} \cup {{FastResumeFile(HashNames[k])} : k \in 1..n}
          /\ linuxDir \in LinuxDirs(n)
    /\ qbit \in BOOLEAN
    /\ pc \in {"tsStart", "shStart"}
    /\ torrentData = Descriptor(<<>>, <<1>>)
    /\ \E k \in 0..1 :
          /\ linuxPaths = [j \in 1..k |-> Base(j)]
          /\ fs = FsOf({<<Base(j), Dir>> : j \in 1..k})
    /\ isSingleFile = FALSE
    /\ expectedFiles = <<>>
    /\ i = 0
    /\ candidates = <<>>
    /\ exactPath = <<>>
    /\ unitResult = <<>>
    /\ linuxPath = <<>>
    /\ exitCode = <<>>
    /\ confirm = <<>>
    /\ backup = <<>>
    /\ pending = {}
    /\ resume = <<>>
    /\ pathMap = <<>>
    /\ written = <<>>

\* the user starts or closes qBittorrent while a driver is running
QBitStarts ==
    /\ UNCHANGED collectVars
    /\ pc \notin {"exited", "crashed", "done"}
    /\ ~qbit
    /\ qbit' = TRUE
    /\ UNCHANGED <<pc, exitCode, windowsFiles, corrupt, confirm, linuxDir, backup,
                   pending, mappingVars>>

QBitStops ==
    /\ UNCHANGED collectVars
    /\ pc \notin {"exited", "crashed", "done"}
    /\ qbit
    /\ qbit' = FALSE
    /\ UNCHANGED <<pc, exitCode, windowsFiles, corrupt, confirm, linuxDir, backup,
                   pending, mappingVars>>

\* lines 533-545: the Windows directory is asked for until it is not empty;
\* LINUX_QBIT_DIR = await findBTBackup(), process.exit(1) when none is found
TsStart ==
    /\ UNCHANGED collectVars
    /\ pc = "tsStart"
    /\ \E found \in BOOLEAN :
          IF found
          THEN pc' = "tsRunning" /\ UNCHANGED exitCode
          ELSE pc' = "exited" /\ exitCode' = <<1>>
    /\ UNCHANGED <<driverVars, mappingVars>>

\* lines 548-553: if (await isQBitRunning()) process.exit(1); pidof succeeds
\* exactly when a process of that name runs
TsCheckRunning ==
    /\ UNCHANGED collectVars
    /\ pc = "tsRunning"
    /\ IF qbit
       THEN pc' = "exited" /\ exitCode' = <<1>>
       ELSE pc' = "tsReaddir" /\ UNCHANGED exitCode
    /\ UNCHANGED <<driverVars, mappingVars>>

\* lines 555-567: the Windows directory must exist and readdir must return
\* at least one file
TsReaddir ==
    /\ UNCHANGED collectVars
    /\ pc = "tsReaddir"
    /\ \E exists \in BOOLEAN :
          IF ~exists \/ Cardinality(windowsFiles) < 1
          THEN pc' = "exited" /\ exitCode' = <<1>>
          ELSE pc' = "tsCollect" /\ UNCHANGED exitCode
    /\ UNCHANGED <<driverVars, mappingVars>>

\* lines 578-603: every .fastresume is decoded inside try; pathMap gets a
\* key for each that decodes.  With no key the mapping has nothing to do.
TsCollect ==
    /\ UNCHANGED collectVars
    /\ pc = "tsCollect"
    /\ pc' = IF fastResumeFiles \ corrupt = {} THEN "mapped" ELSE "findPaths"
    /\ UNCHANGED <<exitCode, driverVars, mappingVars>>

\* lines 629-633: any answer but y / yes ends the run with process.exit(0)
TsPrompt ==
    /\ UNCHANGED collectVars
    /\ pc = "mapped"
    /\ \E answer \in Answers :
          /\ confirm' = <<answer>>
          /\ IF Confirmed(answer)
             THEN /\ pc' = "tsCopy"
                  /\ pending' = torrentFiles \cup {ToFastResume(f) : f \in torrentFiles}
                  /\ UNCHANGED exitCode
             ELSE /\ pc' = "exited"
                  /\ exitCode' = <<0>>
                  /\ UNCHANGED pending
    /\ UNCHANGED <<qbit, windowsFiles, corrupt, linuxDir, backup, mappingVars>>

\* line 644: copyFile of a .torrent; when it fails the catch of line 646 is
\* entered and the .fastresume of line 645 is not copied
TsCopyTorrent ==
    /\ UNCHANGED collectVars
    /\ pc = "tsCopy"
    /\ \E f \in pending \cap torrentFiles, ok \in BOOLEAN :
          IF ok
          THEN /\ linuxDir' = [g \in DOMAIN linuxDir \cup {f} |->
                                 IF g = f THEN "windows" ELSE linuxDir[g]]
               /\ pending' = pending \ {f}
          ELSE /\ pending' = pending \ {f, ToFastResume(f)}
               /\ UNCHANGED linuxDir
    /\ UNCHANGED <<pc, exitCode, qbit, windowsFiles, corrupt, confirm, backup,
                   mappingVars>>

\* line 645: copyFile of the .fastresume, after the .torrent was copied
TsCopyFastResume ==
    /\ UNCHANGED collectVars
    /\ pc = "tsCopy"
    /\ \E t \in torrentFiles \ pending, ok \in BOOLEAN :
          /\ ToFastResume(t) \in pending
          /\ pending' = pending \ {ToFastResume(t)}
          /\ IF ok
             THEN linuxDir' = [g \in DOMAIN linuxDir \cup {ToFastResume(t)} |->
                                 IF g = ToFastResume(t) THEN "windows" ELSE linuxDir[g]]
             ELSE UNCHANGED linuxDir
    /\ UNCHANGED <<pc, exitCode, qbit, windowsFiles, corrupt, confirm, backup,
                   mappingVars>>

\* line 650: await Promise.all of the copies; the rewriting starts
TsCopied ==
    /\ UNCHANGED collectVars
    /\ pc = "tsCopy"
    /\ pending = {}
    /\ pc' = "tsRewrite"
    /\ pending' = fastResumeFiles
    /\ UNCHANGED <<exitCode, qbit, windowsFiles, corrupt, confirm, linuxDir, backup,
                   mappingVars>>

\* lines 654-678: the Windows .fastresume is read and decoded outside try (a
\* file that does not decode rejects Promise.all and the process ends with
\* the uncaught error); the content with the paths replaced is written
\* inside try
TsRewrite ==
    /\ UNCHANGED collectVars
    /\ pc = "tsRewrite"
    /\ \E f \in pending :
          IF f \in corrupt
          THEN /\ pc' = "crashed"
               /\ exitCode' = <<1>>
               /\ UNCHANGED <<linuxDir, pending>>
          ELSE /\ \E ok \in BOOLEAN :
                     IF ok
                     THEN linuxDir' = [g \in DOMAIN linuxDir \cup {f} |->
                                         IF g = f THEN "rewritten" ELSE linuxDir[g]]
                     ELSE UNCHANGED linuxDir
               /\ pending' = pending \ {f}
               /\ UNCHANGED <<pc, exitCode>>
    /\ UNCHANGED <<qbit, windowsFiles, corrupt, confirm, backup, mappingVars>>

\* line 679: await Promise.all of the rewrites; the program ends
TsDone ==
    /\ UNCHANGED collectVars
    /\ pc = "tsRewrite"
    /\ pending = {}
    /\ pc' = "done"
    /\ exitCode' = <<0>>
    /\ UNCHANGED <<driverVars, mappingVars>>

\* windows-to-linux.sh, main, lines 325-332: run as root, the script goes on
\* only after y / Y
ShStart ==
    /\ UNCHANGED collectVars
    /\ pc = "shStart"
    /\ \E root \in BOOLEAN, answer \in Answers :
          IF root /\ ~shConfirmed(answer)
          THEN pc' = "exited" /\ exitCode' = <<1>>
          ELSE pc' = "shRunning" /\ UNCHANGED exitCode
    /\ UNCHANGED <<driverVars, mappingVars>>

\* check_qbittorrent_running, lines 38-43: pgrep -x qbittorrent, exit 1
ShCheckRunning ==
    /\ UNCHANGED collectVars
    /\ pc = "shRunning"
    /\ IF qbit
       THEN pc' = "exited" /\ exitCode' = <<1>>
       ELSE pc' = "shList" /\ UNCHANGED exitCode
    /\ UNCHANGED <<driverVars, mappingVars>>

\* lines 337-354: the Windows directory and its BT_backup must exist and
\* list_torrents must find a .torrent; show_dry_run only prints
ShListTorrents ==
    /\ UNCHANGED collectVars
    /\ pc = "shList"
    /\ \E exists \in BOOLEAN :
          IF ~exists \/ torrentFiles = {}
          THEN pc' = "exited" /\ exitCode' = <<1>>
          ELSE pc' = "shConfirm" /\ UNCHANGED exitCode
    /\ UNCHANGED <<driverVars, mappingVars>>

\* lines 356-362: read -p ... confirm; anything but y / Y is exit 0
ShPrompt ==
    /\ UNCHANGED collectVars
    /\ pc = "shConfirm"
    /\ \E answer \in Answers :
          /\ confirm' = <<answer>>
          /\ IF shConfirmed(answer)
             THEN pc' = "shBackup" /\ UNCHANGED exitCode
             ELSE pc' = "exited" /\ exitCode' = <<0>>
    /\ UNCHANGED <<qbit, windowsFiles, corrupt, linuxDir, backup, pending,
                   mappingVars>>

\* backup_existing_config, lines 46-53: an existing directory is copied with
\* cp -r; under set -e a failing cp ends the script.  The directory exists
\* when it holds a file.
ShBackup ==
    /\ UNCHANGED collectVars
    /\ pc = "shBackup"
    /\ IF DOMAIN linuxDir # {}
       THEN \E ok \in BOOLEAN :
               IF ok
               THEN /\ backup' = <<linuxDir>>
                    /\ pc' = "shMigrate"
                    /\ pending' = windowsFiles \cup {ConfFile}
                    /\ UNCHANGED exitCode
               ELSE /\ pc' = "exited"
                    /\ exitCode' = <<1>>
                    /\ UNCHANGED <<backup, pending>>
       ELSE /\ pc' = "shMigrate"
            /\ pending' = windowsFiles \cup {ConfFile}
            /\ UNCHANGED <<backup, exitCode>>
    /\ UNCHANGED <<qbit, windowsFiles, corrupt, confirm, linuxDir, mappingVars>>

\* perform_migration, lines 278-282: cp of qBittorrent.conf and
\* update_config_paths on the copy
ShCopyConf ==
    /\ UNCHANGED collectVars
    /\ pc = "shMigrate"
    /\ ConfFile \in pending
    /\ \E ok \in BOOLEAN :
          IF ok
          THEN /\ linuxDir' = [g \in DOMAIN linuxDir \cup {ConfFile} |->
                                 IF g = ConfFile THEN "rewritten" ELSE linuxDir[g]]
               /\ pending' = pending \ {ConfFile}
               /\ UNCHANGED <<pc, exitCode>>
          ELSE /\ pc' = "exited"
               /\ exitCode' = <<1>>
               /\ UNCHANGED <<linuxDir, pending>>
    /\ UNCHANGED <<qbit, windowsFiles, corrupt, confirm, backup, mappingVars>>

\* perform_migration, lines 294-297: cp -r of BT_backup, one file at a time
ShCopyFile ==
    /\ UNCHANGED collectVars
    /\ pc = "shMigrate"
    /\ ConfFile \notin pending
    /\ \E f \in pending, ok \in BOOLEAN :
          IF ok
          THEN /\ linuxDir' = [g \in DOMAIN linuxDir \cup {f} |->
                                 IF g = f THEN "windows" ELSE linuxDir[g]]
               /\ pending' = pending \ {f}
               /\ UNCHANGED <<pc, exitCode>>
          ELSE /\ pc' = "exited"
               /\ exitCode' = <<1>>
               /\ UNCHANGED <<linuxDir, pending>>
    /\ UNCHANGED <<qbit, windowsFiles, corrupt, confirm, backup, mappingVars>>

\* lines 306-370: chmod, the closing messages, the script ends
ShDone ==
    /\ UNCHANGED collectVars
    /\ pc = "shMigrate"
    /\ pending = {}
    /\ pc' = "done"
    /\ exitCode' = <<0>>
    /\ UNCHANGED <<driverVars, mappingVars>>

NextDriver ==
    \/ QBitStarts
    \/ QBitStops
    \/ TsStart
    \/ TsCheckRunning
    \/ TsReaddir
    \/ TsCollect
    \/ DriverNoPath
    \/ DriverOnePath
    \/ TsPrompt
    \/ TsCopyTorrent
    \/ TsCopyFastResume
    \/ TsCopied
    \/ TsRewrite
    \/ TsDone
    \/ ShStart
    \/ ShCheckRunning
    \/ ShListTorrents
    \/ ShPrompt
    \/ ShBackup
    \/ ShCopyConf
    \/ ShCopyFile
    \/ ShDone

SpecDriver == InitDriver /\ [][NextDriver]_vars

----------------------------------------------------------------------------
(* The Node driver from the collection of the save paths to the rewrite    *)
(* (src/unnamed/part_000:575-679) with pathMap.  A Windows path is a       *)
(* sequence of characters; every callback of a Promise.all is a step that  *)
(* may be taken in any order.                                              *)

Backslash == "\\"

\* the letters among the characters of the paths
Letters == {"C", "D", "a", "b"}

\* str.replace(/:/g, '').replace(/\\/g, '-')
sanitizePath(str) ==
    LET noColon == SelectSeq(str, LAMBDA c : c # ":")
    IN [k \in 1..Len(noColon) |-> IF noColon[k] = Backslash THEN "-" ELSE noColon[k]]

\* .replace(/^[A-Z]:\\/i, '')
StripDrive(str) ==
    IF Len(str) >= 3 /\ str[1] \in Letters /\ str[2] = ":" /\ str[3] = Backslash
    THEN SubSeq(str, 4, Len(str)) ELSE str

RECURSIVE StripTrailingBackslashes(_)
\* .replace(/\\+$/, '')
StripTrailingBackslashes(str) ==
    IF str # <<>> /\ str[Len(str)] = Backslash
    THEN StripTrailingBackslashes(SubSeq(str, 1, Len(str) - 1)) ELSE str

\* decodedFastResume.save_path.replace(/^[A-Z]:\\/i, '').replace(/\\+$/, '')
\*                            .replace(/\\/g, '/')
normalizeSavePath(str) ==
    LET t == StripTrailingBackslashes(StripDrive(str))
    IN [k \in 1..Len(t) |-> IF t[k] = Backslash THEN Slash ELSE t[k]]

\* filePath.replace(/\.fastresume$/, '.torrent')
ToTorrent(file) ==
    IF file[Len(file)] = ".fastresume"
    THEN SubSeq(file, 1, Len(file) - 1) \o <<".torrent">>
    ELSE file

\* the save paths recorded in the resume files
SavePaths ==
    { <<"D", ":", Backslash, "a">>,
      <<"D", ":", Backslash, "a", Backslash, "b">>,
      <<"D", ":", Backslash, "a", "-", "b">> }

\* the name of the single file of each torrent
DataNames == <<"x", "y", "z", "w">>

\* bencode.decode of the .torrent with this hash: a single-file torrent of
\* length 1 named after its position
TorrentOf(h) ==
    LET k == CHOOSE j \in 1..Len(HashNames) : HashNames[j] = h
    IN [info |-> [name |-> <<DataNames[k]>>, files |-> <<>>, length |-> <<1>>]]

\* glob('/**/' + path): the paths ending in path below the mount points, in
\* the order of the mount points
glob(path, f) ==
    LET hits == {j \in 1..Len(BaseNames) : PathJoin(Base(j), path) \in DOMAIN f}
    IN [n \in 1..Cardinality(hits) |->
          PathJoin(Base(CHOOSE j \in hits : Cardinality({m \in hits : m <= j}) = n),
                   path)]

\* findPaths(path): the matches, or [] when the search timed out or failed
findPaths(path, f, failed) == IF failed THEN <<>> ELSE glob(path, f)

RECURSIVE CandidatesFrom(_, _, _, _)
\* the loop of findCorrectTorrentPath over filePaths from index k
CandidatesFrom(td, filePaths, k, f) ==
    IF k > Len(filePaths) THEN <<>>
    ELSE LET basePath == filePaths[k]
             files == getExpectedFiles(td)
             pushed == IF ~existsSync(f, basePath) THEN <<>>
                       ELSE IF td.info.files = <<>>
                       THEN SingleFileCandidates(basePath, td.info.name, files, f)
                       ELSE IF ~isDirectory(f[basePath]) THEN <<>>
                       ELSE MultiFileCandidates(basePath, td.info.name, files, f)
         IN pushed \o CandidatesFrom(td, filePaths, k + 1, f)

\* findCorrectTorrentPath as one step: <<>> when the reduce throws, else the
\* result
findCorrectTorrentPath(td, filePaths, f) ==
    LET cands == CandidatesFrom(td, filePaths, 1, f)
    IN IF cands = <<>> THEN <<>> ELSE <<Reduce(cands)>>

\* a path below the k-th mount point
Below(k, rel) == PathJoin(Base(k), rel)

\* the Linux file systems of the runs: the save path "a" twice with the data
\* of one torrent at each place; twice with no data; once
PathMapTrees ==
    { FsOf({<<Below(1, <<"a">>), Dir>>, <<Below(1, <<"a", Slash, "x">>), File(1)>>,
            <<Below(2, <<"a">>), Dir>>, <<Below(2, <<"a", Slash, "y">>), File(1)>>,
            <<Below(1, <<"a", Slash, "b">>), Dir>>,
            <<Below(1, <<"a", "-", "b">>), Dir>>}),
      FsOf({<<Below(1, <<"a">>), Dir>>, <<Below(2, <<"a">>), Dir>>,
            <<Below(1, <<"a", Slash, "b">>), Dir>>,
            <<Below(1, <<"a", "-", "b">>), Dir>>}),
      FsOf({<<Below(1, <<"a">>), Dir>>}) }

\* lines 555-575: the Windows directory was read and pathMap is empty; at
\* most one file of the directory does not decode
InitPathMap ==
    /\ \E n \in 1..MaxTorrents :
          /\ windowsFiles = FilesOf(n)
          /\ resume \in [{FastResumeFile(HashNames[k]) : k \in 1..n} -> SavePaths]
          /\ corrupt \in {{}} \cup {{f} : f \in FilesOf(n)}
          /\ pending = {FastResumeFile(HashNames[k]) : k \in 1..n}
    /\ fs \in PathMapTrees
    /\ pc = "pmCollect"
    /\ pathMap = <<>>
    /\ written = <<>>
    /\ qbit = FALSE
    /\ linuxDir = <<>>
    /\ torrentData = Descriptor(<<>>, <<1>>)
    /\ linuxPaths = <<>>
    /\ isSingleFile = FALSE
    /\ expectedFiles = <<>>
    /\ i = 0
    /\ candidates = <<>>
    /\ exactPath = <<>>
    /\ unitResult = <<>>
    /\ linuxPath = <<>>
    /\ exitCode = <<>>
    /\ confirm = <<>>
    /\ backup = <<>>

\* pathMap[key] = value
PathMapSet(map, key, value) ==
    [k \in DOMAIN map \cup {key} |-> IF k = key THEN value ELSE map[k]]

\* lines 579-602, one callback of the Promise.all, run when its two readFile
\* have completed: both contents are decoded inside try and pathMap[key] is
\* assigned; a decoding error is logged
PmCollectFile ==
    /\ pc = "pmCollect"
    /\ \E file \in pending :
          /\ pending' = pending \ {file}
          /\ IF file \in corrupt \/ ToTorrent(file) \in corrupt
             THEN UNCHANGED pathMap
             ELSE LET save_path == resume[file]
                      key == sanitizePath(save_path)
                  IN pathMap' = PathMapSet(pathMap, key,
                                    [normalizedPath |-> normalizeSavePath(save_path),
                                     torrent |-> TorrentOf(file[1]),
                                     windowsPath |-> save_path,
                                     linuxPath |-> <<>>])
    /\ UNCHANGED <<pc, exitCode, qbit, windowsFiles, corrupt, confirm, linuxDir,
                   backup, resume, written, mappingVars>>

\* line 603: await Promise.all of the collection; line 607: one callback for
\* each of Object.keys(pathMap)
PmCollected ==
    /\ pc = "pmCollect"
    /\ pending = {}
    /\ pc' = "pmMap"
    /\ pending' = DOMAIN pathMap
    /\ UNCHANGED <<exitCode, qbit, windowsFiles, corrupt, confirm, linuxDir, backup,
                   collectVars, mappingVars>>

\* lines 607-620, one callback: no path ends the process with exit(1); several
\* paths are settled by findCorrectTorrentPath with the torrent of the entry,
\* whose throw rejects the Promise.all and ends the process; else the path
PmMapKey ==
    /\ pc = "pmMap"
    /\ \E savePath \in pending, failed \in BOOLEAN :
          LET found == findPaths(pathMap[savePath].normalizedPath, fs, failed)
              exact == findCorrectTorrentPath(pathMap[savePath].torrent, found, fs)
              assign(p) ==
                  /\ pathMap' = [pathMap EXCEPT ![savePath].linuxPath = <<p>>]
                  /\ pending' = pending \ {savePath}
                  /\ UNCHANGED <<pc, exitCode>>
          IN IF Len(found) = 0
             THEN /\ pc' = "exited"
                  /\ exitCode' = <<1>>
                  /\ UNCHANGED <<pathMap, pending>>
             ELSE IF Len(found) > 1
             THEN IF exact = <<>>
                  THEN /\ pc' = "crashed"
                       /\ exitCode' = <<1>>
                       /\ UNCHANGED <<pathMap, pending>>
                  ELSE assign(exact[1].basePath)
             ELSE assign(found[1])
    /\ UNCHANGED <<qbit, windowsFiles, corrupt, confirm, linuxDir, backup, resume,
                   written, mappingVars>>

\* line 621: await Promise.all of the mapping; lines 622-627 print the map
PmMapped ==
    /\ pc = "pmMap"
    /\ pending = {}
    /\ pc' = "mapped"
    /\ UNCHANGED <<exitCode, driverVars, collectVars, mappingVars>>

\* lines 654-678, one callback: decode and the two pathMap[key] lookups are
\* outside try, so a file that does not decode, a key pathMap lacks and an
\* entry without linuxPath reject the Promise.all and end the process; the
\* content, with windowsPath replaced by linuxPath where it occurs, is
\* written inside try
PmRewrite ==
    /\ pc = "tsRewrite"
    /\ \E file \in pending :
          LET key == sanitizePath(resume[file])
          IN IF \/ file \in corrupt
                \/ key \notin DOMAIN pathMap
                \/ pathMap[key].linuxPath = <<>>
             THEN /\ pc' = "crashed"
                  /\ exitCode' = <<1>>
                  /\ UNCHANGED <<linuxDir, written, pending>>
             ELSE /\ \E ok \in BOOLEAN :
                        IF ok
                        THEN /\ linuxDir' = [g \in DOMAIN linuxDir \cup {file} |->
                                               IF g = file THEN "rewritten"
                                               ELSE linuxDir[g]]
                             /\ written' = [g \in DOMAIN written \cup {file} |->
                                              IF g # file THEN written[g]
                                              ELSE IF pathMap[key].windowsPath = resume[file]
                                              THEN pathMap[key].linuxPath[1]
                                              ELSE resume[file]]
                        ELSE UNCHANGED <<linuxDir, written>>
                  /\ pending' = pending \ {file}
                  /\ UNCHANGED <<pc, exitCode>>
    /\ UNCHANGED <<qbit, windowsFiles, corrupt, confirm, backup, resume, pathMap,
                   mappingVars>>

NextPathMap ==
    \/ PmCollectFile
    \/ PmCollected
    \/ PmMapKey
    \/ PmMapped
    \/ TsPrompt
    \/ TsCopyTorrent
    \/ TsCopyFastResume
    \/ TsCopied
    \/ PmRewrite
    \/ TsDone

SpecPathMap == InitPathMap /\ [][NextPathMap]_vars

----------------------------------------------------------------------------
(* Properties *)

\* findCorrectTorrentPath has been entered
Entered == i > 0

CandidateIndexes == 1..Len(candidates)

\* the base paths whose loop iteration is over
Processed == 1..(i - 1)

InUnitInterval(c) == c[1] >= 0 /\ c[1] <= c[2]

\* the size the descriptor declares for a single-file torrent
DeclaredSize ==
    IF torrentData.info.length = <<>> THEN 0 ELSE torrentData.info.length[1]

\* the size on disk of the file a single-file candidate was scored on
SizeOnDisk(c) == fs[c.matches[1].actualPath].size

IsPartial(c) == 0 < SizeOnDisk(c) /\ SizeOnDisk(c) < DeclaredSize

\* C1: every confidence produced by validateSingleFile or
\* validateMultiFileStructure, and so the confidence of the result of
\* findCorrectTorrentPath, lies in [0, 1].
C1_ConfidenceInUnitInterval ==
    /\ \A k \in CandidateIndexes : InUnitInterval(candidates[k].confidence)
    /\ exactPath # <<>> => InUnitInterval(exactPath[1].confidence)

\* C2: when no base path produces a viable hypothesis, findCorrectTorrentPath
\* returns an explicit no-match outcome and does not raise, and the driver
\* does not crash.
C2_NoMatchIsReturnedNotRaised ==
    (Entered /\ pc # "loop" /\ candidates = <<>>) => pc \notin {"threw", "crashed"}

\* C3: the candidate returned has the maximal confidence, and is the first
\* candidate with that confidence in evaluation order: base paths left to
\* right and, within one base path, "with torrent name folder" before
\* "direct in base path".
C3_ReturnsFirstMaximum ==
    /\ pc = "returned" =>
          \E k \in CandidateIndexes :
             /\ exactPath[1] = candidates[k]
             /\ \A j \in CandidateIndexes :
                   FLe(candidates[j].confidence, candidates[k].confidence)
             /\ \A j \in 1..(k - 1) :
                   FLt(candidates[j].confidence, candidates[k].confidence)
    /\ \A j, k \in CandidateIndexes :
          j < k =>
             LET pj == CHOOSE p \in 1..Len(linuxPaths) :
                          linuxPaths[p] = candidates[j].basePath
                 pk == CHOOSE p \in 1..Len(linuxPaths) :
                          linuxPaths[p] = candidates[k].basePath
                 b == candidates[j].basePath
             IN /\ pj <= pk
                /\ pj = pk =>
                     /\ ~isSingleFile
                     /\ candidates[j].matches[1].actualPath =
                           PathJoin(PathJoin(b, torrentData.info.name),
                                    expectedFiles[1].path)
                     /\ candidates[k].matches[1].actualPath =
                           PathJoin(b, expectedFiles[1].path)

\* a call returned the first of two equally best candidates found under
\* different base paths, after a weaker candidate
C3_TieAtMaximum ==
    /\ pc = "returned"
    /\ \E j, k \in CandidateIndexes :
          /\ 1 < j /\ j < k
          /\ exactPath[1] = candidates[j]
          /\ candidates[k].confidence = candidates[j].confidence
          /\ candidates[k].basePath # candidates[j].basePath
          /\ FLt(candidates[1].confidence, candidates[j].confidence)

\* C4: a multi-file hypothesis under which every one of the N >= 1 entries
\* exists with exactly its expected size has confidence 1.0.
C4_AllPresentScoresOne ==
    \A k \in CandidateIndexes :
       (/\ ~isSingleFile
        /\ candidates[k].totalFiles >= 1
        /\ \A m \in 1..Len(candidates[k].matches) :
              /\ candidates[k].matches[m].actualPath \in DOMAIN fs
              /\ fs[candidates[k].matches[m].actualPath].size =
                    expectedFiles[m].size)
       => candidates[k].confidence = <<1, 1>>

\* C5: for an existing file of a single-file torrent the confidence is 1.0
\* exactly when the size on disk equals the declared size (0 when info.length
\* is absent), and 0.2 when the file is empty although a size > 0 is declared
\* or when it is larger than declared.
C5_ExactAndMismatch ==
    isSingleFile =>
       \A k \in CandidateIndexes :
          LET c == candidates[k]
          IN /\ (c.confidence = <<1, 1>>) <=> (SizeOnDisk(c) = DeclaredSize)
             /\ ((SizeOnDisk(c) = 0 /\ DeclaredSize > 0)
                 \/ SizeOnDisk(c) > DeclaredSize) => c.confidence = <<1, 5>>

\* info.length is absent; one candidate is an empty file (exact match at
\* size 0) and another a larger file (mismatch upward)
C5_ExactAtZeroAndUpward ==
    /\ isSingleFile
    /\ torrentData.info.length = <<>>
    /\ \E j, k \in CandidateIndexes :
          /\ SizeOnDisk(candidates[j]) = 0
          /\ candidates[j].confidence = <<1, 1>>
          /\ SizeOnDisk(candidates[k]) > 0
          /\ candidates[k].confidence = <<1, 5>>

\* C6: for an existing file with 0 < actualSize < expectedSize the confidence
\* is 0.5 + (actualSize / expectedSize) * 0.3, lies strictly between 0.5 and
\* 0.8, and is strictly increasing in actualSize.
C6_PartialFormula ==
    isSingleFile =>
       \A k \in CandidateIndexes :
          LET c == candidates[k].confidence
          IN IsPartial(candidates[k]) =>
                /\ c[1] * 10 * DeclaredSize =
                      (5 * DeclaredSize + 3 * SizeOnDisk(candidates[k])) * c[2]
                /\ 2 * c[1] > c[2]
                /\ 5 * c[1] < 4 * c[2]
                /\ \A j \in CandidateIndexes :
                      (/\ IsPartial(candidates[j])
                       /\ SizeOnDisk(candidates[j]) < SizeOnDisk(candidates[k]))
                      => FLt(candidates[j].confidence, c)

\* two partial downloads of different sizes have been scored
C6_TwoPartials ==
    /\ isSingleFile
    /\ \E j, k \in CandidateIndexes :
          /\ IsPartial(candidates[j])
          /\ IsPartial(candidates[k])
          /\ SizeOnDisk(candidates[j]) < SizeOnDisk(candidates[k])

\* the file a single-file hypothesis on base path b looks at
SingleTarget(b) ==
    IF b \in DOMAIN fs /\ fs[b].kind = "dir"
    THEN PathJoin(b, torrentData.info.name) ELSE b

\* C7: in single-file mode a hypothesis whose target file does not exist adds
\* no candidate, and no candidate has exists = false or existingFiles = 0.
C7_AbsentFileNoCandidate ==
    (isSingleFile /\ Entered) =>
       /\ \A k \in CandidateIndexes :
             /\ Len(candidates[k].matches) = 1
             /\ candidates[k].matches[1].exists
             /\ candidates[k].existingFiles = 1
       /\ \A p \in Processed :
             SingleTarget(linuxPaths[p]) \notin DOMAIN fs =>
                ~\E k \in CandidateIndexes : candidates[k].basePath = linuxPaths[p]

\* a single-file call has returned although one base path is a directory
\* that does not contain the file
C7_DirectoryWithoutFile ==
    /\ isSingleFile
    /\ pc = "returned"
    /\ \E p \in Processed :
          /\ linuxPaths[p] \in DOMAIN fs
          /\ fs[linuxPaths[p]].kind = "dir"
          /\ SingleTarget(linuxPaths[p]) \notin DOMAIN fs

\* the two roots tested for base path b
Roots(b) == {PathJoin(b, torrentData.info.name), b}

\* root is a directory below which no expected file exists
NothingUnder(root) ==
    /\ root \in DOMAIN fs
    /\ fs[root].kind = "dir"
    /\ \A m \in 1..Len(expectedFiles) :
          PathJoin(root, expectedFiles[m].path) \notin DOMAIN fs

\* candidate c was scored on this root of its base path
ScoredOn(c, root) ==
    c.matches # <<>> =>
       c.matches[1].actualPath = PathJoin(root, expectedFiles[1].path)

\* C8: a multi-file hypothesis under which no entry exists scores 0 and adds
\* no candidate; every candidate has confidence > 0 and existingFiles >= 1.
C8_NothingFoundNoCandidate ==
    /\ \A k \in CandidateIndexes :
          /\ candidates[k].confidence[1] > 0
          /\ candidates[k].existingFiles >= 1
    /\ (~isSingleFile /\ Entered) =>
          \A p \in Processed :
             \A root \in Roots(linuxPaths[p]) :
                (linuxPaths[p] \in DOMAIN fs /\ fs[linuxPaths[p]].kind = "dir"
                 /\ NothingUnder(root)) =>
                   /\ validateMultiFileStructure(root, expectedFiles, fs)[1]
                         .confidence = <<0, 1>>
                   /\ ~\E k \in CandidateIndexes :
                         /\ candidates[k].basePath = linuxPaths[p]
                         /\ ScoredOn(candidates[k], root)

\* a multi-file call has returned a candidate although the folder named
\* after the torrent exists under one base path and holds none of the files
C8_EmptyNamedFolder ==
    /\ ~isSingleFile
    /\ pc = "returned"
    /\ Len(expectedFiles) >= 1
    /\ \E p \in Processed :
          /\ NothingUnder(PathJoin(linuxPaths[p], torrentData.info.name))
          /\ exactPath[1].basePath = linuxPaths[p]

\* number of matches of the direct call with exists / sizeMatch set
UnitExisting == Cardinality({m \in 1..Len(unitResult[1].matches) :
                               unitResult[1].matches[m].exists})
UnitPerfect == Cardinality({m \in 1..Len(unitResult[1].matches) :
                              unitResult[1].matches[m].sizeMatch})

\* C9: with e > 0 of n entries existing and p size matches, the confidence is
\* (e/n)*0.7 + (p/e)*0.3, then +0.1 if e/n > 0.8, then raised to at least 0.6
\* if e/n > 0.5; 6 of 10 all matching give 0.72, 9 of 10 none matching 0.73.
C9_MultiFormula ==
    (unitResult # <<>> /\ UnitExisting > 0) =>
       LET n == Len(expectedFiles)
           e == UnitExisting
           q == UnitPerfect
           c == unitResult[1].confidence
           \* all terms over the common denominator 10 * n * e
           raw == 7 * e * e + 3 * q * n
           bonus == IF 10 * e > 8 * n THEN raw + n * e ELSE raw
           floor == IF 2 * e > n /\ bonus < 6 * n * e THEN 6 * n * e ELSE bonus
       IN /\ c[1] * 10 * n * e = floor * c[2]
          /\ (n = 10 /\ e = 6 /\ q = 6) => c = <<18, 25>>
          /\ (n = 10 /\ e = 9 /\ q = 0) => c = <<73, 100>>

\* 9 of 10 files exist, none with the expected size, and the hypothesis has
\* been scored
C9_NineOfTenNoSizeMatch ==
    /\ unitResult # <<>>
    /\ Len(expectedFiles) = 10
    /\ UnitExisting = 9
    /\ UnitPerfect = 0

\* C10: the manifest built by getExpectedFiles is non-empty, and in
\* single-file mode it has exactly one entry whose path is info.name.
C10_ManifestNonEmpty ==
    Entered =>
       /\ Len(expectedFiles) >= 1
       /\ isSingleFile =>
             (Len(expectedFiles) = 1 /\ expectedFiles[1].path = torrentData.info.name)

\* C11: no filesystem state makes findCorrectTorrentPath raise, also when
\* another process changes the filesystem between an existence check and the
\* following stat of the same path: a stat of a missing path is recorded as
\* non-existence and never leaves the function as an exception
C11_StatFailureIsEvidence == pc # "statThrew"

\* n spaces
Spaces(n) == [k \in 1..n |-> " "]

\* y and yes in every spelling of upper and lower case
YesWords ==
    {<<a>> : a \in {"y", "Y"}}
      \cup {<<a, b, c>> : <<a, b, c>> \in {"y", "Y"} \X {"e", "E"} \X {"s", "S"}}

\* the answer is y or yes, in any case, between any number of spaces
SaysYes(answer) ==
    \E l, r \in 0..Len(answer), w \in YesWords :
       answer = Spaces(l) \o w \o Spaces(r)

\* C13: no file is copied or written into the Linux qBittorrent directory
\* unless the user answered the confirmation prompt with y or yes
\* (case-insensitive, trimmed); any other answer ends the run with exit code
\* 0 and the directory unchanged.
C13_NoWriteWithoutYes ==
    [][ /\ linuxDir' # linuxDir => (confirm # <<>> /\ SaysYes(confirm[1]))
        /\ (confirm = <<>> /\ confirm' # <<>> /\ ~SaysYes(confirm'[1])) =>
              (pc' = "exited" /\ exitCode' = <<0>> /\ linuxDir' = linuxDir)
        /\ pc = "exited" => (pc' = "exited" /\ linuxDir' = linuxDir)
      ]_vars

\* a run has ended after " YES " was answered and a file was written, and
\* the prompt accepts more than one spelling
C13_WrittenAfterYes ==
    /\ pc = "done"
    /\ confirm = << <<" ", "Y", "E", "S", " ">> >>
    /\ \E f \in DOMAIN linuxDir : linuxDir[f] = "rewritten"

\* C14: qBittorrent is closed during the migration: a running-check that
\* finds it running ends the driver with exit code 1 before any copy or
\* write, and no copy or write into the Linux qBittorrent directory happens
\* in a state where qBittorrent is running, also when it was started after
\* the check.
C14_NoWriteWhileRunning ==
    [][ /\ (pc \in {"tsRunning", "shRunning"} /\ qbit /\ pc' # pc) =>
              (pc' = "exited" /\ exitCode' = <<1>> /\ linuxDir' = linuxDir)
        /\ linuxDir' # linuxDir => ~qbit
      ]_vars

\* C15: every overwrite of a file the Linux qBittorrent directory held before
\* the run is preceded by a completed backup holding that content.
C15_BackupBeforeOverwrite ==
    [][ \A f \in DOMAIN linuxDir :
           (linuxDir[f] = "linux" /\ f \in DOMAIN linuxDir' /\ linuxDir'[f] # "linux")
              => (backup # <<>> /\ f \in DOMAIN backup[1] /\ backup[1][f] = "linux")
      ]_vars

\* entry m of the manifest exists under the root of the direct call
UnitOnDisk(m) == PathJoin(linuxPaths[1], expectedFiles[m].path) \in DOMAIN fs

\* and has the expected size
UnitSizeOk(m) ==
    /\ UnitOnDisk(m)
    /\ fs[PathJoin(linuxPaths[1], expectedFiles[m].path)].size = expectedFiles[m].size

\* c is the confidence of e existing and q size-matching files among n
\* entries, all terms over the common denominator 10 * n * e
IsScoreOf(c, n, e, q) ==
    IF e = 0 THEN c = <<0, 1>>
    ELSE LET raw == 7 * e * e + 3 * q * n
             bonus == IF 10 * e > 8 * n THEN raw + n * e ELSE raw
             floor == IF 2 * e > n /\ bonus < 6 * n * e THEN 6 * n * e ELSE bonus
         IN c[1] * 10 * n * e = floor * c[2]

CandidatesOf(b) == SelectSeq(candidates, LAMBDA c : c.basePath = b)

\* root is a directory under which at least one expected file exists
YieldsEvidence(root) ==
    /\ root \in DOMAIN fs
    /\ fs[root].kind = "dir"
    /\ \E m \in 1..Len(expectedFiles) :
          PathJoin(root, expectedFiles[m].path) \in DOMAIN fs

\* the roots of base path b that yield evidence: b/name first, then b
YieldingRoots(b) ==
    LET named == PathJoin(b, torrentData.info.name)
    IN (IF YieldsEvidence(named) THEN <<named>> ELSE <<>>)
       \o (IF YieldsEvidence(b) THEN <<b>> ELSE <<>>)

\* C17: in multi-file mode a base path that is not a directory adds no
\* candidate; a directory base path is tested under base/name and then under
\* base itself, and each of the two roots that yields confidence > 0 adds
\* its own candidate, in this order.
C17_TwoRootsInOrder ==
    (~isSingleFile /\ Entered) =>
       \A p \in Processed :
          LET b == linuxPaths[p]
              mine == CandidatesOf(b)
              roots == YieldingRoots(b)
          IN IF b \in DOMAIN fs /\ fs[b].kind = "dir"
             THEN /\ Len(mine) = Len(roots)
                  /\ \A k \in 1..Len(roots) :
                        /\ mine[k].matches[1].actualPath
                              = PathJoin(roots[k], expectedFiles[1].path)
                        /\ mine[k].totalFiles = Len(expectedFiles)
             ELSE mine = <<>>

\* a multi-file call has returned after a directory base path gave a
\* candidate for each of its two roots and another base path was no directory
C17_BothRootsYield ==
    /\ ~isSingleFile
    /\ pc = "returned"
    /\ \E p \in Processed : Len(YieldingRoots(linuxPaths[p])) = 2
                            /\ Len(CandidatesOf(linuxPaths[p])) = 2
    /\ \E p \in Processed : /\ linuxPaths[p] \in DOMAIN fs
                            /\ fs[linuxPaths[p]].kind # "dir"

\* what base path b is: "missing", or the kind of its stat
KindOf(b) == IF b \in DOMAIN fs THEN fs[b].kind ELSE "missing"

\* C18: in single-file mode a base path that is a regular file is tested as
\* the file itself and only so, a directory only for a file named
\* manifest.name in it, and a path that is neither (or missing) not at all:
\* each base path adds at most one candidate.
C18_OneHypothesisPerKind ==
    (isSingleFile /\ Entered) =>
       \A p \in Processed :
          LET b == linuxPaths[p]
              mine == CandidatesOf(b)
          IN /\ Len(mine) <= 1
             /\ KindOf(b) = "file" =>
                   (Len(mine) = 1 /\ mine[1].matches[1].actualPath = b)
             /\ KindOf(b) = "dir" =>
                   (/\ Len(mine) = 1
                         <=> PathJoin(b, torrentData.info.name) \in DOMAIN fs
                    /\ \A k \in 1..Len(mine) :
                          mine[k].matches[1].actualPath
                             = PathJoin(b, torrentData.info.name))
             /\ KindOf(b) \notin {"file", "dir"} => mine = <<>>

\* a single-file call has returned after one base path that is a directory
\* holding the file and one that exists but is neither file nor directory
C18_DirectoryAndNeither ==
    /\ isSingleFile
    /\ pc = "returned"
    /\ \E p \in Processed : KindOf(linuxPaths[p]) = "dir"
                            /\ Len(CandidatesOf(linuxPaths[p])) = 1
    /\ \E p \in Processed : KindOf(linuxPaths[p]) \notin {"file", "dir", "missing"}

RECURSIVE SegmentOffset(_, _)
\* the number of characters before segment k of a path whose segments are
\* separated by one character
SegmentOffset(segments, k) ==
    IF k = 1 THEN 0
    ELSE SegmentOffset(segments, k - 1) + Len(segments[k - 1]) + 1

\* str is the segments in their order with one "/" between neighbours
IsSlashJoined(str, segments) ==
    IF segments = <<>> THEN str = <<>>
    ELSE /\ Len(str) = SegmentOffset(segments, Len(segments)) + Len(segments[Len(segments)])
         /\ \A k \in 1..Len(segments) :
               /\ SubSeq(str, SegmentOffset(segments, k) + 1,
                         SegmentOffset(segments, k) + Len(segments[k])) = segments[k]
               /\ k > 1 => str[SegmentOffset(segments, k)] = "/"

\* C19: getExpectedFiles preserves the descriptor: with info.files the i-th
\* entry has the i-th file's segments joined with "/" as path and its length
\* as size, same order and number; without info.files the sole entry has path
\* info.name and size info.length, 0 when info.length is absent.
C19_ManifestPreservesDescriptor ==
    Entered =>
       LET info == torrentData.info
       IN IF info.files # <<>>
          THEN /\ Len(expectedFiles) = Len(info.files[1])
               /\ \A j \in 1..Len(expectedFiles) :
                     /\ IsSlashJoined(expectedFiles[j].path, info.files[1][j].path)
                     /\ expectedFiles[j].size = info.files[1][j].length
          ELSE /\ Len(expectedFiles) = 1
               /\ expectedFiles[1].path = info.name
               /\ info.length # <<>> => expectedFiles[1].size = info.length[1]
               /\ info.length = <<>> => expectedFiles[1].size = 0

\* the manifest of a descriptor with two files, one of them in a folder, has
\* been built
C19_TwoFilesOneInFolder ==
    /\ Entered
    /\ torrentData.info.files # <<>>
    /\ Len(expectedFiles) = 2
    /\ \E j \in 1..2 : Len(torrentData.info.files[1][j].path) = 2

\* the filesystem with one more regular file, of size s, at path p
WithFile(f, p, s) == [q \in DOMAIN f \cup {p} |-> IF q = p THEN File(s) ELSE f[q]]

\* the confidence of the direct call repeated after entry m was found with
\* size s
UnitConfidenceWith(m, s) ==
    validateMultiFileStructure(
        linuxPaths[1], expectedFiles,
        WithFile(fs, PathJoin(linuxPaths[1], expectedFiles[m].path), s))[1].confidence

\* the entries of the manifest that do not exist under the root
UnitAbsent == {m \in 1..Len(expectedFiles) : ~UnitOnDisk(m)}

\* C20 as claimed: the confidence of a multi-file manifest never decreases
\* when one more expected file is found to exist, whether or not that file
\* has the expected size.
C20_OneMoreFileNeverLowers ==
    unitResult # <<>> =>
       \A m \in UnitAbsent :
          /\ FLe(unitResult[1].confidence,
                 UnitConfidenceWith(m, expectedFiles[m].size))
          /\ FLe(unitResult[1].confidence,
                 UnitConfidenceWith(m, expectedFiles[m].size + 1))

\* C20 as amended: the confidence of a multi-file manifest never decreases
\* when one more expected file is found to exist with its expected size (the
\* numbers of existing and of size-matching files both grow by one).
C20_OneMoreMatchingFileNeverLowers ==
    unitResult # <<>> =>
       \A m \in UnitAbsent :
          FLe(unitResult[1].confidence, UnitConfidenceWith(m, expectedFiles[m].size))

\* 8 of 10 files exist, all with the expected size (0.86), and one more
\* matching file takes the score over the 0.8 threshold of the bonus (1.03)
C20_EightOfTenThenNine ==
    /\ unitResult # <<>>
    /\ Len(expectedFiles) = 10
    /\ unitResult[1].existingFiles = 8
    /\ unitResult[1].confidence = <<43, 50>>
    /\ \E m \in UnitAbsent :
          UnitConfidenceWith(m, expectedFiles[m].size) = <<103, 100>>

----------------------------------------------------------------------------
(* The path map                                                            *)

\* the collection callback of the file assigns pathMap[key]
Decodes(file) == file \notin corrupt /\ ToTorrent(file) \notin corrupt

\* the resume files whose collection callback has run
Collected ==
    IF pc = "pmCollect" THEN fastResumeFiles \ pending ELSE fastResumeFiles

\* C21: two resume files with different save_path never get the same key, so
\* the entry a collected file finds under its key holds the file's own
\* save_path as windowsPath, and a file the rewrite wrote holds the linuxPath
\* of its own save path and never its Windows save_path
C21_EntryOfOwnSavePath ==
    /\ \A f \in Collected :
          Decodes(f) => pathMap[sanitizePath(resume[f])].windowsPath = resume[f]
    /\ \A f \in DOMAIN written : written[f] # resume[f]

\* the resume files of the key
GroupOf(key) == {f \in fastResumeFiles : sanitizePath(resume[f]) = key}

\* those whose collection callback assigns pathMap[key]
Assigning(key) == {f \in GroupOf(key) : Decodes(f)}

\* the files of the key share one save_path
OneSavePath(key) == \A f \in GroupOf(key), g \in GroupOf(key) : resume[f] = resume[g]

\* the position of the file in fastResumeFiles
ArrayIndex(file) == CHOOSE j \in 1..Len(HashNames) : HashNames[j] = file[1]

\* the torrent of the entry when the callbacks complete in the order of
\* fastResumeFiles: that of the last file that assigns it
InOrderTorrent(key) ==
    LET last == CHOOSE f \in Assigning(key) :
                    \A g \in Assigning(key) : ArrayIndex(g) <= ArrayIndex(f)
    IN TorrentOf(last[1])

\* the linuxPath of the entry (0 or 1 element) when the callbacks complete
\* in the order of fastResumeFiles and the search succeeds
InOrderLinuxPath(key) ==
    LET found == findPaths(pathMap[key].normalizedPath, fs, FALSE)
        exact == findCorrectTorrentPath(InOrderTorrent(key), found, fs)
    IN IF Len(found) = 0 THEN <<>>
       ELSE IF Len(found) > 1
       THEN (IF exact = <<>> THEN <<>> ELSE <<exact[1].basePath>>)
       ELSE <<found[1]>>

\* C22: once the collection is over, the entry of a save path several resume
\* files share is the one every completion order of the reads leaves: its
\* torrent, the linuxPath picked with it and the path written into each file
\* of the group are those of the completion in the order of fastResumeFiles
C22_EntryIndependentOfCompletionOrder ==
    pc # "pmCollect" =>
       /\ \A key \in DOMAIN pathMap :
             OneSavePath(key) =>
                /\ pathMap[key].torrent = InOrderTorrent(key)
                /\ pathMap[key].linuxPath \in {<<>>, InOrderLinuxPath(key)}
       /\ \A f \in DOMAIN written :
             OneSavePath(sanitizePath(resume[f])) =>
                <<written[f]>> = InOrderLinuxPath(sanitizePath(resume[f]))

\* the rewrite callback of the file gets to its writeFile: the content
\* decodes and pathMap[key] has windowsPath and linuxPath
RewriteFindsEntry(file) ==
    /\ file \notin corrupt
    /\ sanitizePath(resume[file]) \in DOMAIN pathMap
    /\ pathMap[sanitizePath(resume[file])].linuxPath # <<>>

\* C23: every resume file the rewrite phase has still to process decodes and
\* finds under its key an entry with windowsPath and linuxPath, and the
\* process never ends with an uncaught error once the migration was confirmed
C23_RewriteNeverFails ==
    /\ pc = "tsRewrite" => \A f \in pending : RewriteFindsEntry(f)
    /\ pc = "crashed" => confirm = <<>>

====
